---- MODULE Spec2Model ----
(***************************************************************************)
(* A model of the consul topology watcher of haproxy-consul-connect        *)
(* (consul/watcher.go) and of lib/shutdown.go.                             *)
(*                                                                         *)
(* Every goroutine is a process with a program counter.  A step holds at   *)
(* most one access to state shared between goroutines (a critical section  *)
(* of w.lock is one step, an unlocked write is one step, a channel         *)
(* operation is one step); what a goroutine does on locals in between is   *)
(* folded into the step.  The registry (consul) is the environment: each   *)
(* query returns an error or any result of the bounded input sets.         *)
(***************************************************************************)
EXTENDS Integers, Sequences, FiniteSets, TLC

(***************************************************************************)
(* Bounds of the model.                                                    *)
(***************************************************************************)
\* Registry indexes (X-Consul-Index) and content hashes are 0..MaxIndex;
\* 0 is also the zero value the watchers start from and reset to ("" for a
\* hash).
MaxIndex == 1
\* CA roots lists have at most MaxRoots entries.
MaxRoots == 2
\* Distinct certificate values (PEM blobs) are 1..MaxCert.
MaxCert == 2
\* The history counter of notifyChanged calls saturates at MaxNotes.
MaxNotes == 2
\* Upstream objects (with their watcher goroutine) alive at one time.
MaxUps == 3
\* The registry answers at most MaxPolls queries in a behaviour of the
\* whole system (a long poll that is not answered blocks), and at most
\* MaxReconPolls in a behaviour of the reconciliation alone.
MaxPolls == 5
MaxReconPolls == 3
\* The registry answers at most MaxResyncPolls queries in a behaviour of
\* the watch loops alone.
MaxResyncPolls == 4
\* The registry answers at most MaxSnapPolls queries in a behaviour that
\* follows the emitted Configs.
MaxSnapPolls == 5
\* The registry answers at most MaxRemovalPolls queries in a behaviour that
\* removes and adds upstreams after the barrier.
MaxRemovalPolls == 4
\* The registry answers at most MaxDownPolls queries for the registration
\* in a behaviour of the proxy watcher alone.
MaxDownPolls == 3
\* The raw node list of an upstream has at most MaxLen instances when
\* genCfg is checked as a function.
MaxLen == 3

(***************************************************************************)
(* Program constants (watcher.go:15-21).                                   *)
(***************************************************************************)
defaultDownstreamBindAddr == "0.0.0.0"
defaultUpstreamBindAddr == "127.0.0.1"

Indexes == 0..MaxIndex
Certs == 1..MaxCert

RECURSIVE SeqsUpTo(_, _)
\* All sequences over S of length at most n.
SeqsUpTo(S, n) ==
  IF n = 0 THEN {<<>>}
  ELSE LET shorter == SeqsUpTo(S, n - 1)
       IN shorter \cup {Append(s, x) : s \in {t \in shorter : Len(t) = n - 1}, x \in S}

Range(s) == {s[i] : i \in DOMAIN s}

VARIABLES
  runPc,       \* Watcher.Run: "start", "wait", "recv", "gen", "send", "failed", "panic"
  update,      \* w.update: number of signals buffered in the channel (capacity 1)
  ready,       \* w.ready: the WaitGroup counter
  cfg,         \* the Config genCfg returned and Run is sending on w.C: <<>> or <<c>>
  out,         \* the consumer: the CAs of the last Config received from w.C, as read then
  certCAs,     \* w.certCAs: a slice header [arr, len] into caHeap (arr = 0: nil)
  caHeap,      \* the backing arrays of w.certCAs ever allocated
  certCAPool,  \* w.certCAPool: the certificates of the pool
  leaf,        \* w.leaf: [nil, Cert, Key]
  downstream,  \* w.downstream
  upstreams,   \* w.upstreams: key -> id of an upstream object
  ups,         \* the upstream objects with their watcher goroutine
  ca,          \* watchCA: [pc, lastIndex, first]
  lf,          \* watchLeaf: [pc, lastIndex, first]
  px,          \* watchService(proxyID, handleProxyChange)
  pt,          \* watchService(w.service, port handler)
  polls,       \* the number of answers the registry still gives
  hist,        \* history: what the claims observe (see the claims below)
  sd           \* lib.Shutdown and the goroutines that call Shutdown (see below)

vars == <<runPc, update, ready, cfg, out, certCAs, caHeap, certCAPool, leaf,
          downstream, upstreams, ups, ca, lf, px, pt, polls, hist, sd>>

(***************************************************************************)
(* lib.Shutdown (shutdown.go): stopped is the flag, closes counts the      *)
(* close(h.Stop) calls that were executed (a second one panics), first is  *)
(* the caller whose swap found the flag at 0 (<<>>: none yet), pc and      *)
(* calls are each caller's position and number of Shutdown calls, i is the *)
(* counter of the signal goroutine, exited tells that it called os.Exit.   *)
(***************************************************************************)
\* Every caller calls Shutdown at most MaxCalls times.
MaxCalls == 2

\* The signal goroutine of NewShutdown and two other callers.
Callers == {"sig", "a", "b"}

NewShutdown ==
  [stopped |-> 0, closes |-> 0, first |-> <<>>, i |-> 0, exited |-> FALSE,
   pc |-> [c \in Callers |-> "idle"], calls |-> [c \in Callers |-> 0]]

(***************************************************************************)
(* Slices: w.certCAs = w.certCAs[:0] keeps the backing array, append       *)
(* writes in place while the capacity lasts and moves to a new array when  *)
(* it does not.                                                            *)
(***************************************************************************)
NilSlice == [arr |-> 0, len |-> 0]

SliceVal(s, h) == IF s.arr = 0 THEN <<>> ELSE SubSeq(h[s.arr], 1, s.len)

SliceCap(s, h) == IF s.arr = 0 THEN 0 ELSE Len(h[s.arr])

\* runtime.growslice for one more element of a small slice: the capacity
\* doubles (from 0 to 1).
GrowCap(c) == IF c = 0 THEN 1 ELSE 2 * c

\* append(s, v) on the heap h: st = [s, h].
AppendCA(st, v) ==
  IF st.s.len < SliceCap(st.s, st.h)
  THEN [s |-> [st.s EXCEPT !.len = @ + 1],
        h |-> [st.h EXCEPT ![st.s.arr][st.s.len + 1] = v]]
  ELSE LET newcap == GrowCap(SliceCap(st.s, st.h))
           arr == [i \in 1..newcap |->
                     IF i <= st.s.len THEN st.h[st.s.arr][i]
                     ELSE IF i = st.s.len + 1 THEN v ELSE 0]
       IN [s |-> [arr |-> Len(st.h) + 1, len |-> st.s.len + 1],
           h |-> Append(st.h, arr)]

RECURSIVE AppendAllCA(_, _)
AppendAllCA(st, roots) ==
  IF roots = <<>> THEN st
  ELSE AppendAllCA(AppendCA(st, Head(roots)), Tail(roots))

\* watchCA's critical section (watcher.go:390-400): truncate, then append
\* every root.
ReplaceCAs(s, h, roots) == AppendAllCA([s |-> [s EXCEPT !.len = 0], h |-> h], roots)

(***************************************************************************)
(* notifyChanged: a send on the one-slot channel w.update that is dropped  *)
(* when the slot is taken (select with default).                           *)
(***************************************************************************)
\* Mutant: a send that is never dropped.
NotifyChangedBug(u) == u + 1

NotifyChanged(u) == IF u = 0 THEN 1 ELSE u

(***************************************************************************)
(* genCfg's node list (watcher.go:456-490).  A raw instance                *)
(* (api.ServiceEntry) is [Node, NodeAddress, ServiceAddress, Port, Status, *)
(* Passing, Warning]; Status is s.Checks.AggregatedStatus().  Node names    *)
(* are numbers, ordered as the strings "n1" < "n2" < ... are.              *)
(***************************************************************************)
HealthPassing == "passing"
HealthWarning == "warning"

\* watcher.go:466-477: the weight of an instance, 0 for an excluded one
\* (the code skips it with continue).
NodeWeight(s) ==
  CASE s.Status = HealthPassing -> s.Passing
    [] s.Status = HealthWarning -> s.Warning
    [] OTHER -> 0

\* Mutant: the zero weight is not skipped.
NodeEmittedBug(s) == s.Status \in {HealthPassing, HealthWarning}

\* watcher.go:467-477: whether the instance survives the two continues.
NodeEmitted(s) == s.Status \in {HealthPassing, HealthWarning} /\ NodeWeight(s) # 0

\* watcher.go:459-485: the UpstreamNode built for a surviving instance.
UpstreamNode(s) ==
  [Name    |-> s.Node,
   Address |-> IF s.ServiceAddress = "" THEN s.NodeAddress ELSE s.ServiceAddress,
   Port    |-> s.Port,
   Weight  |-> NodeWeight(s)]

RECURSIVE FilterNodes(_)
\* The loop of watcher.go:456-486 over up.Nodes, in order.
FilterNodes(raw) ==
  IF raw = <<>> THEN <<>>
  ELSE IF NodeEmitted(Head(raw))
       THEN <<UpstreamNode(Head(raw))>> \o FilterNodes(Tail(raw))
       ELSE FilterNodes(Tail(raw))

\* The less function of watcher.go:488-490.
NodeLess(a, b) == a.Name < b.Name

RECURSIVE InsertNode(_, _)
\* One pass of the insertion sort sort.Slice runs on a short slice: x sinks
\* from the end of the sorted prefix while it is less than its left
\* neighbour.
InsertNode(sorted, x) ==
  IF sorted = <<>> THEN <<x>>
  ELSE LET n == Len(sorted)
       IN IF NodeLess(x, sorted[n])
          THEN Append(InsertNode(SubSeq(sorted, 1, n - 1), x), sorted[n])
          ELSE Append(sorted, x)

RECURSIVE SortNodes(_)
\* sort.Slice(upstream.Nodes, less) (watcher.go:488-490).
SortNodes(nodes) ==
  IF nodes = <<>> THEN <<>>
  ELSE LET n == Len(nodes)
       IN InsertNode(SortNodes(SubSeq(nodes, 1, n - 1)), nodes[n])

\* The Nodes of the Upstream genCfg builds from the raw list up.Nodes.
GenNodes(raw) == SortNodes(FilterNodes(raw))

(***************************************************************************)
(* genCfg (watcher.go:412-496).  The order of config.Upstreams is the      *)
(* iteration order of a Go map, which is unspecified: the Upstreams are    *)
(* kept by key.  Fields the watcher only copies from the registration      *)
(* (LocalBindAddress, Datacenter, Protocol of an upstream, ServiceName,    *)
(* ServiceID) are left out.                                                *)
(***************************************************************************)
TLSOf(cas, l) == [CAs |-> cas, Cert |-> l.Cert, Key |-> l.Key]

GenUpstream(u, cas, l) ==
  [Name          |-> u.Name,
   LocalBindPort |-> u.LocalBindPort,
   Nodes         |-> GenNodes(u.Nodes),
   TLS           |-> TLSOf(cas, l)]

GenConfig(ds, cas, pool, l, upmap, objs) ==
  [CAsPool    |-> pool,
   Downstream |-> [LocalBindAddress  |-> ds.LocalBindAddress,
                   LocalBindPort     |-> ds.LocalBindPort,
                   TargetAddress     |-> ds.TargetAddress,
                   TargetPort        |-> ds.TargetPort,
                   Protocol          |-> ds.Protocol,
                   EnableForwardFor  |-> ds.EnableForwardFor,
                   AppNameHeaderName |-> ds.AppNameHeaderName,
                   TLS               |-> TLSOf(cas, l)],
   Upstreams  |-> [k \in DOMAIN upmap |-> GenUpstream(objs[upmap[k]], cas, l)]]

(***************************************************************************)
(* The initial state: New (watcher.go:72-82) and the zero values of the    *)
(* goroutines' locals.                                                     *)
(***************************************************************************)
Watchers4 == {"ca", "leaf", "proxy", "port"}

ZeroDownstream ==
  [LocalBindAddress |-> "", LocalBindPort |-> 0, Protocol |-> "", TargetAddress |-> "",
   TargetPort |-> 0, EnableForwardFor |-> FALSE, AppNameHeaderName |-> ""]

NilLeaf == [nil |-> TRUE, Cert |-> 0, Key |-> 0]

\* The locals of a watch loop before its first poll (lastIndex/hash zero,
\* first true).
ZeroLoop == [pc |-> "poll", lastIndex |-> 0, first |-> TRUE]

\* What the history keeps of a watch loop's polls: st is "none", "ok"
\* (the last answer was a success), "failed" (it was an error), "resynced"
\* (it was the first success after an error and was treated as changed) or
\* "missed" (it was the first success after an error and was not); prev is
\* the index, hash or node list of the success before (<<>>: none), got the
\* one of the last success.
\* changed tells whether the last success was treated as changed and
\* calls counts the notifyChanged calls of the loop since that success.
NoPolls == [st |-> "none", prev |-> <<>>, got |-> <<>>, changed |-> FALSE, calls |-> 0]

\* The fields of w.downstream that handleProxyChange writes.
ProxyPart(ds) ==
  [f \in {"LocalBindAddress", "LocalBindPort", "TargetAddress", "Protocol",
          "EnableForwardFor", "AppNameHeaderName"} |-> ds[f]]

\* History of a step of handleProxyChange that leaves the handler at p with
\* the downstream ds: ds is kept once the last downstream field is written.
Applied(h, p, ds) ==
  IF h.applied # <<>> /\ p.pc # "cfg"
  THEN [h EXCEPT !.applied = <<@[1] \cup {ProxyPart(ds)}>>]
  ELSE h

\* History of the upstreams: the key name got a watcher, the key name was
\* removed, the watcher of the object u, not told to stop, stored nodes,
\* and genCfg ran.
KeyStarted(h, name) ==
  IF h.fresh # <<>> /\ name \notin DOMAIN h.fresh[1]
  THEN [h EXCEPT !.fresh = <<[k \in DOMAIN @[1] \cup {name} |->
                               IF k = name THEN <<>> ELSE @[1][k]]>>]
  ELSE h

KeyRemoved(h, name) ==
  IF h.fresh # <<>>
  THEN [h EXCEPT !.fresh = <<[k \in DOMAIN @[1] \ {name} |-> @[1][k]]>>]
  ELSE h

NodesStored(h, u, nodes) ==
  IF h.fresh # <<>> /\ ~u.done /\ u.Name \in DOMAIN h.fresh[1]
  THEN [h EXCEPT !.fresh = <<[@[1] EXCEPT ![u.Name] = nodes]>>]
  ELSE h

ConfigGenerated(h) == IF h.fresh # <<>> THEN [h EXCEPT !.atgen = h.fresh] ELSE h

ZeroHist(track) ==
  [signalled |-> {},   \* the startup watchers that called w.ready.Done()
   notes     |-> 0,    \* notifyChanged calls since Run last received from w.update
   batch     |-> 0,    \* the notifyChanged calls behind the signal Run last received
   gens      |-> 0,    \* genCfg calls since Run last received from w.update
   recvd     |-> FALSE, \* Run has received from w.update
   before    |-> <<>>, \* w.upstreams when the running handleProxyChange was called
   mark      |-> IF track = "mark" THEN "none" ELSE "off",  \* one tracked change
   applied   |-> IF track = "snap" THEN <<{ProxyPart(ZeroDownstream)}>> ELSE <<>>,
                                    \* what handleProxyChange left in w.downstream
   fresh     |-> IF track = "removal" THEN << <<>> >> ELSE <<>>,
                                    \* per tracked key, the list its watcher stored last
   atgen     |-> <<>>,              \* fresh when genCfg last ran
   prior     |-> IF track = "down" THEN <<ZeroDownstream>> ELSE <<>>,
                                    \* w.downstream when handleProxyChange was last called
   resync    |-> track = "resync",  \* whether the polls are kept
   loops     |-> [w \in Watchers4 |-> NoPolls],  \* the polls of the startup watchers
   uploops   |-> [i \in 1..MaxUps |-> NoPolls]]  \* the polls of the upstream watchers

\* What a goroutine is allowed to do: nothing before Run started it and
\* nothing after a panic ended the process.
Running == runPc \in {"wait", "recv", "gen", "send"}

Min(a, b) == IF a < b THEN a ELSE b

\* History of a notifyChanged call.
Noted(h) == [h EXCEPT !.notes = Min(@ + 1, MaxNotes)]

\* History of a write to the shared state: the write may be the tracked
\* change when none is tracked yet and the readiness barrier is passed.
Marks(h) ==
  IF h.mark = "none" /\ runPc \in {"recv", "gen", "send"}
  THEN {h, [h EXCEPT !.mark = "pending"]}
  ELSE {h}

\* History of an error answer and of a success with the value v (an index,
\* a hash, a node list) that was or was not treated as changed.
PollFailed(l) == [l EXCEPT !.st = "failed"]

PollOk(l, v, changed) ==
  [st   |-> IF l.st = "failed" THEN (IF changed THEN "resynced" ELSE "missed") ELSE "ok",
   prev |-> l.got,
   got  |-> <<v>>,
   changed |-> changed,
   calls   |-> 0]

LoopFailed(h, w) == IF h.resync THEN [h EXCEPT !.loops[w] = PollFailed(@)] ELSE h
LoopOk(h, w, v, changed) == IF h.resync THEN [h EXCEPT !.loops[w] = PollOk(@, v, changed)] ELSE h
UpLoopFailed(h, i) == IF h.resync THEN [h EXCEPT !.uploops[i] = PollFailed(@)] ELSE h
UpLoopOk(h, i, v, changed) == IF h.resync THEN [h EXCEPT !.uploops[i] = PollOk(@, v, changed)] ELSE h
UpLoopNotified(h, i) == IF h.resync THEN [h EXCEPT !.uploops[i].calls = @ + 1] ELSE h

\* changed := lastIndex != meta.LastIndex (watcher.go:207, 315, 355, 385).
Changed(last, got) == last # got

\* What the error path leaves in the tracked index/hash (watcher.go:204,
\* 311, 351, 381).
ResetIndex(last) == 0

\* w.ready.Done(): a negative counter panics.
ReadyDone(r) == r - 1

(***************************************************************************)
(* Watcher.Run (watcher.go:84-116) and the consumer of w.C.                *)
(***************************************************************************)
\* Mutant: the barrier armed for three watchers.
ReadyAddBug == 4 - 1

\* w.ready.Add(4) (watcher.go:97).
ReadyAdd == 4

\* LookupProxyIDForSidecar or Agent().Service failed: Run returns the error.
RunStartErr ==
  /\ runPc = "start"
  /\ runPc' = "failed"
  /\ UNCHANGED <<polls, sd>>
  /\ UNCHANGED <<update, ready, cfg, out, certCAs, caHeap, certCAPool, leaf,
                 downstream, upstreams, ups, ca, lf, px, pt, hist>>

\* watcher.go:95-107: the barrier is armed and the four watchers start.
RunStart ==
  /\ runPc = "start"
  /\ runPc' = "wait"
  /\ ready' = ready + ReadyAdd
  /\ UNCHANGED <<polls, sd>>
  /\ UNCHANGED <<update, cfg, out, certCAs, caHeap, certCAPool, leaf,
                 downstream, upstreams, ups, ca, lf, px, pt, hist>>

\* w.ready.Wait() returns when the counter is zero.
WaitPassed(r) == r = 0

RunWait ==
  /\ runPc = "wait"
  /\ WaitPassed(ready)
  /\ runPc' = "recv"
  /\ UNCHANGED <<polls, sd>>
  /\ UNCHANGED <<update, ready, cfg, out, certCAs, caHeap, certCAPool, leaf,
                 downstream, upstreams, ups, ca, lf, px, pt, hist>>

\* for range w.update: one signal is received.
RunRecv ==
  /\ runPc = "recv"
  /\ update > 0
  /\ update' = update - 1
  /\ runPc' = "gen"
  /\ hist' = [hist EXCEPT !.notes = 0, !.batch = hist.notes, !.gens = 0, !.recvd = TRUE]
  /\ UNCHANGED <<polls, sd>>
  /\ UNCHANGED <<ready, cfg, out, certCAs, caHeap, certCAPool, leaf,
                 downstream, upstreams, ups, ca, lf, px, pt>>

\* w.genCfg() under w.lock; w.leaf.Cert of a nil leaf panics.
RunGenCfg ==
  /\ runPc = "gen"
  /\ IF leaf.nil
     THEN /\ runPc' = "panic"
          /\ cfg' = cfg
     ELSE /\ runPc' = "send"
          /\ cfg' = <<GenConfig(downstream, certCAs, certCAPool, leaf, upstreams, ups)>>
  /\ hist' = [ConfigGenerated(hist) EXCEPT !.gens = @ + 1,
                          !.mark = IF @ = "pending" /\ ~leaf.nil THEN "generated" ELSE @]
  /\ UNCHANGED <<polls, sd>>
  /\ UNCHANGED <<update, ready, out, certCAs, caHeap, certCAPool, leaf,
                 downstream, upstreams, ups, ca, lf, px, pt>>

\* w.C <- config meets the consumer's receive (w.C is unbuffered).  The
\* consumer keeps the Config's CAs slice and what it reads in it at that
\* moment.
Consume ==
  /\ runPc = "send"
  /\ runPc' = "recv"
  /\ cfg' = <<>>
  /\ out' = <<[CAs |-> cfg[1].Downstream.TLS.CAs,
                cas |-> SliceVal(cfg[1].Downstream.TLS.CAs, caHeap)]>>
  /\ hist' = [hist EXCEPT !.mark = IF @ = "generated" THEN "emitted" ELSE @]
  /\ UNCHANGED <<polls, sd>>
  /\ UNCHANGED <<update, ready, certCAs, caHeap, certCAPool, leaf,
                 downstream, upstreams, ups, ca, lf, px, pt>>

(***************************************************************************)
(* watchCA (watcher.go:368-410).                                           *)
(***************************************************************************)
\* ConnectCARoots failed: sleep, lastIndex = 0, continue.
WatchCAErr ==
  /\ Running /\ polls > 0 /\ ca.pc = "poll"
  /\ ca' = [ca EXCEPT !.lastIndex = ResetIndex(@)]
  /\ polls' = polls - 1
  /\ UNCHANGED sd
  /\ hist' = LoopFailed(hist, "ca")
  /\ UNCHANGED <<runPc, update, ready, cfg, out, certCAs, caHeap, certCAPool, leaf,
                 downstream, upstreams, ups, lf, px, pt>>

\* ConnectCARoots returned roots at index idx.
WatchCAOk(idx, roots) ==
  /\ Running /\ polls > 0 /\ ca.pc = "poll"
  /\ LET changed == Changed(ca.lastIndex, idx)
         st == ReplaceCAs(certCAs, caHeap, roots)
     IN /\ ca' = [ca EXCEPT !.lastIndex = idx,
                            !.pc = IF changed THEN "notify"
                                   ELSE IF ca.first THEN "ready" ELSE "poll"]
        /\ IF changed
           THEN /\ certCAs' = st.s
                /\ caHeap' = st.h
                /\ certCAPool' = Range(roots)
                /\ hist' \in Marks(LoopOk(hist, "ca", idx, TRUE))
           ELSE /\ UNCHANGED <<certCAs, caHeap, certCAPool>>
                /\ hist' = LoopOk(hist, "ca", idx, FALSE)
  /\ polls' = polls - 1
  /\ UNCHANGED sd
  /\ UNCHANGED <<runPc, update, ready, cfg, out, leaf,
                 downstream, upstreams, ups, lf, px, pt>>

WatchCANotify ==
  /\ Running /\ ca.pc = "notify"
  /\ update' = NotifyChanged(update)
  /\ ca' = [ca EXCEPT !.pc = IF ca.first THEN "ready" ELSE "poll"]
  /\ hist' = Noted(hist)
  /\ UNCHANGED <<polls, sd>>
  /\ UNCHANGED <<runPc, ready, cfg, out, certCAs, caHeap, certCAPool, leaf,
                 downstream, upstreams, ups, lf, px, pt>>

\* if first { w.ready.Done(); first = false } (watcher.go:404-408).
WatchCAReady ==
  /\ Running /\ ca.pc = "ready"
  /\ ready' = ReadyDone(ready)
  /\ runPc' = IF ready' < 0 THEN "panic" ELSE runPc
  /\ ca' = [ca EXCEPT !.pc = "poll", !.first = FALSE]
  /\ hist' = [hist EXCEPT !.signalled = @ \cup {"ca"}]
  /\ UNCHANGED <<polls, sd>>
  /\ UNCHANGED <<update, cfg, out, certCAs, caHeap, certCAPool, leaf,
                 downstream, upstreams, ups, lf, px, pt>>

(***************************************************************************)
(* watchLeaf (watcher.go:298-336).                                         *)
(***************************************************************************)
WatchLeafErr ==
  /\ Running /\ polls > 0 /\ lf.pc = "poll"
  /\ lf' = [lf EXCEPT !.lastIndex = ResetIndex(@)]
  /\ polls' = polls - 1
  /\ UNCHANGED sd
  /\ hist' = LoopFailed(hist, "leaf")
  /\ UNCHANGED <<runPc, update, ready, cfg, out, certCAs, caHeap, certCAPool, leaf,
                 downstream, upstreams, ups, ca, px, pt>>

\* ConnectCALeaf returned the certificate c (CertPEM and PrivateKeyPEM of
\* one response) at index idx.
WatchLeafOk(idx, c) ==
  /\ Running /\ polls > 0 /\ lf.pc = "poll"
  /\ LET changed == Changed(lf.lastIndex, idx)
     IN /\ lf' = [lf EXCEPT !.lastIndex = idx,
                            !.pc = IF changed THEN "notify"
                                   ELSE IF lf.first THEN "ready" ELSE "poll"]
        /\ IF changed
           THEN /\ leaf' = [nil |-> FALSE, Cert |-> c, Key |-> c]
                /\ hist' \in Marks(LoopOk(hist, "leaf", idx, TRUE))
           ELSE /\ UNCHANGED leaf
                /\ hist' = LoopOk(hist, "leaf", idx, FALSE)
  /\ polls' = polls - 1
  /\ UNCHANGED sd
  /\ UNCHANGED <<runPc, update, ready, cfg, out, certCAs, caHeap, certCAPool,
                 downstream, upstreams, ups, ca, px, pt>>

WatchLeafNotify ==
  /\ Running /\ lf.pc = "notify"
  /\ update' = NotifyChanged(update)
  /\ lf' = [lf EXCEPT !.pc = IF lf.first THEN "ready" ELSE "poll"]
  /\ hist' = Noted(hist)
  /\ UNCHANGED <<polls, sd>>
  /\ UNCHANGED <<runPc, ready, cfg, out, certCAs, caHeap, certCAPool, leaf,
                 downstream, upstreams, ups, ca, px, pt>>

WatchLeafReady ==
  /\ Running /\ lf.pc = "ready"
  /\ ready' = ReadyDone(ready)
  /\ runPc' = IF ready' < 0 THEN "panic" ELSE runPc
  /\ lf' = [lf EXCEPT !.pc = "poll", !.first = FALSE]
  /\ hist' = [hist EXCEPT !.signalled = @ \cup {"leaf"}]
  /\ UNCHANGED <<polls, sd>>
  /\ UNCHANGED <<update, cfg, out, certCAs, caHeap, certCAPool, leaf,
                 downstream, upstreams, ups, ca, px, pt>>

(***************************************************************************)
(* watchService(w.service, ...) with the port handler                      *)
(* (watcher.go:102-107, 338-366).  The handler writes TargetPort without   *)
(* w.lock.                                                                 *)
(***************************************************************************)
WatchPortErr ==
  /\ Running /\ polls > 0 /\ pt.pc = "poll"
  /\ pt' = [pt EXCEPT !.lastIndex = ResetIndex(@)]
  /\ polls' = polls - 1
  /\ UNCHANGED sd
  /\ hist' = LoopFailed(hist, "port")
  /\ UNCHANGED <<runPc, update, ready, cfg, out, certCAs, caHeap, certCAPool, leaf,
                 downstream, upstreams, ups, ca, lf, px>>

\* Agent().Service returned a service with port p and content hash h.
WatchPortOk(h, p) ==
  /\ Running /\ polls > 0 /\ pt.pc = "poll"
  /\ LET changed == Changed(pt.lastIndex, h)
     IN IF changed
        THEN /\ pt' = [pt EXCEPT !.lastIndex = h,
                                 !.pc = IF pt.first THEN "ready" ELSE "notify"]
             /\ downstream' = [downstream EXCEPT !.TargetPort = p]
             /\ hist' \in Marks(LoopOk(hist, "port", h, TRUE))
        ELSE /\ pt' = [pt EXCEPT !.lastIndex = h, !.first = FALSE]
             /\ UNCHANGED downstream
             /\ hist' = LoopOk(hist, "port", h, FALSE)
  /\ polls' = polls - 1
  /\ UNCHANGED sd
  /\ UNCHANGED <<runPc, update, ready, cfg, out, certCAs, caHeap, certCAPool, leaf,
                 upstreams, ups, ca, lf, px>>

\* if first { w.ready.Done() } in the handler (watcher.go:104-106).
WatchPortReady ==
  /\ Running /\ pt.pc = "ready"
  /\ ready' = ReadyDone(ready)
  /\ runPc' = IF ready' < 0 THEN "panic" ELSE runPc
  /\ pt' = [pt EXCEPT !.pc = "notify"]
  /\ hist' = [hist EXCEPT !.signalled = @ \cup {"port"}]
  /\ UNCHANGED <<polls, sd>>
  /\ UNCHANGED <<update, cfg, out, certCAs, caHeap, certCAPool, leaf,
                 downstream, upstreams, ups, ca, lf, px>>

\* w.notifyChanged(), then first = false (watcher.go:361-364).
WatchPortNotify ==
  /\ Running /\ pt.pc = "notify"
  /\ update' = NotifyChanged(update)
  /\ pt' = [pt EXCEPT !.pc = "poll", !.first = FALSE]
  /\ hist' = Noted(hist)
  /\ UNCHANGED <<polls, sd>>
  /\ UNCHANGED <<runPc, ready, cfg, out, certCAs, caHeap, certCAPool, leaf,
                 downstream, upstreams, ups, ca, lf, px>>

(***************************************************************************)
(* Upstreams.  A registration's upstream (api.Upstream) is                 *)
(* [DestinationType, DestinationName, LocalBindPort, PollInterval];        *)
(* PollInterval is Config["poll_interval"], "" when the key is missing or  *)
(* no string.  An upstream object (a Go upstream struct) carries the       *)
(* locals of its watcher goroutine: pc, index (direct service), last       *)
(* (prepared query, <<>> for the nil slice and <<l>> for the list l).      *)
(***************************************************************************)
UpstreamDestTypePreparedQuery == "prepared_query"

\* fmt.Sprintf("%s_%s", up.DestinationType, up.DestinationName)
\* (watcher.go:145).
KeyOf(up) == up.DestinationType \o "_" \o up.DestinationName

\* The strings time.ParseDuration accepts, among those the model uses.
ValidDurations == {"1s"}

FreeUp ==
  [live |-> FALSE, Name |-> "", LocalBindPort |-> 0, Nodes |-> <<>>, done |-> FALSE,
   kind |-> "", pc |-> "", index |-> 0, last |-> <<>>]

\* u := &upstream{...} (watcher.go:175-180, 223-228) and the locals of the
\* goroutine started for it.
NewUp(up, name, kind) ==
  [live |-> TRUE, Name |-> name, LocalBindPort |-> up.LocalBindPort, Nodes |-> <<>>,
   done |-> FALSE, kind |-> kind, pc |-> "check", index |-> 0, last |-> <<>>]

FreeIds(objs) == {i \in DOMAIN objs : ~objs[i].live}

MinOf(S) == CHOOSE x \in S : \A y \in S : x <= y

\* w.upstreams[name] = u with a goroutine for u: st = [m, o], the map and
\* the objects.
AddUpstream(st, up, name, kind) ==
  LET id == MinOf(FreeIds(st.o))
  IN [m |-> [k \in DOMAIN st.m \cup {name} |-> IF k = name THEN id ELSE st.m[k]],
      o |-> [st.o EXCEPT ![id] = NewUp(up, name, kind)]]

\* startUpstreamService (watcher.go:172-218).
StartUpstreamService(st, up, name) == AddUpstream(st, up, name, "service")

\* Mutant: every poll_interval is taken.
PollIntervalOkBug(up) == TRUE

\* The poll_interval check of startUpstreamPreparedQuery (watcher.go:235-248):
\* a string that does not parse makes it return before the upstream is added.
PollIntervalOk(up) == up.PollInterval = "" \/ up.PollInterval \in ValidDurations

\* startUpstreamPreparedQuery (watcher.go:220-287).
StartUpstreamPreparedQuery(st, up, name) ==
  IF PollIntervalOk(up)
  THEN AddUpstream(st, up, name, UpstreamDestTypePreparedQuery)
  ELSE st

\* The body of the loop of handleProxyChange over srv.Proxy.Upstreams
\* (watcher.go:145-157) for one upstream.
ReconcileOne(st, up) ==
  LET name == KeyOf(up)
  IN IF name \in DOMAIN st.m THEN st
     ELSE IF up.DestinationType = UpstreamDestTypePreparedQuery
          THEN StartUpstreamPreparedQuery(st, up, name)
          ELSE StartUpstreamService(st, up, name)

\* Mutant: the watcher is told and the entry stays in the map.
RemoveUpstreamKeepBug(st, name) ==
  [m |-> st.m, o |-> [st.o EXCEPT ![st.m[name]].done = TRUE]]

\* Mutant: the entry is deleted and its watcher is not told.
RemoveUpstreamBug(st, name) ==
  [m |-> [k \in DOMAIN st.m \ {name} |-> st.m[k]], o |-> st.o]

\* removeUpstream (watcher.go:289-296).
RemoveUpstream(st, name) ==
  [m |-> [k \in DOMAIN st.m \ {name} |-> st.m[k]],
   o |-> [st.o EXCEPT ![st.m[name]].done = TRUE]]

(***************************************************************************)
(* watchService(proxyID, w.handleProxyChange) (watcher.go:118-170,         *)
(* 338-366).  A registration (api.AgentService) is [Port, Proxy]; Proxy is *)
(* <<>> (nil) or <<[Config, Upstreams]>>, Config a function from the keys  *)
(* that are present with the type the handler asserts to their values (a   *)
(* nil Config is the empty one).                                           *)
(***************************************************************************)
NoSrv == [Port |-> 0, Proxy |-> <<>>]

ZeroPx == [pc |-> "poll", lastIndex |-> 0, first |-> TRUE, srv |-> NoSrv, i |-> 0, keep |-> {}]

SrvConfig(srv) == IF srv.Proxy = <<>> THEN <<>> ELSE srv.Proxy[1].Config

SrvUpstreams(srv) == IF srv.Proxy = <<>> THEN <<>> ELSE srv.Proxy[1].Upstreams

\* The five keys of watcher.go:124-138 in the order they are read, with the
\* field each one sets.
ConfigLines ==
  << [key |-> "protocol",              field |-> "Protocol"],
     [key |-> "bind_address",          field |-> "LocalBindAddress"],
     [key |-> "local_service_address", field |-> "TargetAddress"],
     [key |-> "enable_forwardfor",     field |-> "EnableForwardFor"],
     [key |-> "appname_header",        field |-> "AppNameHeaderName"] >>

\* Where handleProxyChange goes once the upstream loop is over: the removal
\* loop if a tracked key is not kept, else the end of the handler.
AfterLoop(upmap, keep, first) ==
  IF DOMAIN upmap \ keep # {} THEN "rm"
  ELSE IF first THEN "ready" ELSE "notify"

\* Where handleProxyChange goes after the config line i (0: after
\* watcher.go:121): the next line whose key is present, else the upstream
\* loop.
AfterLine(p, i) ==
  LET later == {j \in (i + 1)..Len(ConfigLines) : ConfigLines[j].key \in DOMAIN SrvConfig(p.srv)}
  IN IF later # {} THEN [p EXCEPT !.pc = "cfg", !.i = MinOf(later)]
     ELSE IF SrvUpstreams(p.srv) # <<>> THEN [p EXCEPT !.pc = "loop", !.i = 1]
     ELSE [p EXCEPT !.pc = AfterLoop(upstreams, {}, p.first), !.i = 0]

WatchProxyErr ==
  /\ Running /\ polls > 0 /\ px.pc = "poll"
  /\ px' = [px EXCEPT !.lastIndex = ResetIndex(@)]
  /\ polls' = polls - 1
  /\ UNCHANGED sd
  /\ hist' = LoopFailed(hist, "proxy")
  /\ UNCHANGED <<runPc, update, ready, cfg, out, certCAs, caHeap, certCAPool, leaf,
                 downstream, upstreams, ups, ca, lf, pt>>

\* Agent().Service returned the registration srv with content hash h.  The
\* model has object slots for the upstreams srv may start.
WatchProxyOk(h, srv) ==
  /\ Running /\ polls > 0 /\ px.pc = "poll"
  /\ Cardinality({KeyOf(SrvUpstreams(srv)[j]) : j \in DOMAIN SrvUpstreams(srv)} \ DOMAIN upstreams)
       <= Cardinality(FreeIds(ups))
  /\ IF Changed(px.lastIndex, h)
     THEN /\ px' = [px EXCEPT !.lastIndex = h, !.pc = "h119", !.srv = srv]
          /\ hist' = [LoopOk(hist, "proxy", h, TRUE) EXCEPT
                        !.before = upstreams,
                        !.prior = IF @ = <<>> THEN @ ELSE <<downstream>>]
     ELSE /\ px' = [px EXCEPT !.lastIndex = h, !.first = FALSE]
          /\ hist' = LoopOk(hist, "proxy", h, FALSE)
  /\ polls' = polls - 1
  /\ UNCHANGED sd
  /\ UNCHANGED <<runPc, update, ready, cfg, out, certCAs, caHeap, certCAPool, leaf,
                 downstream, upstreams, ups, ca, lf, pt>>

\* Mutant: the bind address of the registration before is left in place.
HandleBindKeepBug ==
  /\ Running /\ px.pc = "h119"
  /\ px' = [px EXCEPT !.pc = "h120"]
  /\ UNCHANGED <<runPc, update, ready, cfg, out, certCAs, caHeap, certCAPool, leaf,
                 downstream, upstreams, ups, ca, lf, pt, polls, hist, sd>>

\* w.downstream.LocalBindAddress = defaultDownstreamBindAddr (watcher.go:119).
HandleBindDefault ==
  /\ Running /\ px.pc = "h119"
  /\ downstream' = [downstream EXCEPT !.LocalBindAddress = defaultDownstreamBindAddr]
  /\ px' = [px EXCEPT !.pc = "h120"]
  /\ hist' \in Marks(hist)
  /\ UNCHANGED <<polls, sd>>
  /\ UNCHANGED <<runPc, update, ready, cfg, out, certCAs, caHeap, certCAPool, leaf,
                 upstreams, ups, ca, lf, pt>>

\* w.downstream.LocalBindPort = srv.Port (watcher.go:120).
HandleBindPort ==
  /\ Running /\ px.pc = "h120"
  /\ downstream' = [downstream EXCEPT !.LocalBindPort = px.srv.Port]
  /\ px' = [px EXCEPT !.pc = "h121"]
  /\ hist' \in Marks(hist)
  /\ UNCHANGED <<polls, sd>>
  /\ UNCHANGED <<runPc, update, ready, cfg, out, certCAs, caHeap, certCAPool, leaf,
                 upstreams, ups, ca, lf, pt>>

\* w.downstream.TargetAddress = defaultUpstreamBindAddr (watcher.go:121).
HandleTargetDefault ==
  /\ Running /\ px.pc = "h121"
  /\ downstream' = [downstream EXCEPT !.TargetAddress = defaultUpstreamBindAddr]
  /\ px' = AfterLine(px, 0)
  /\ hist' \in Marks(Applied(hist, px', downstream'))
  /\ UNCHANGED <<polls, sd>>
  /\ UNCHANGED <<runPc, update, ready, cfg, out, certCAs, caHeap, certCAPool, leaf,
                 upstreams, ups, ca, lf, pt>>

\* One of the assignments of watcher.go:124-138, for a key that is present.
HandleConfigLine ==
  /\ Running /\ px.pc = "cfg"
  /\ LET line == ConfigLines[px.i]
     IN downstream' = [downstream EXCEPT ![line.field] = SrvConfig(px.srv)[line.key]]
  /\ px' = AfterLine(px, px.i)
  /\ hist' \in Marks(Applied(hist, px', downstream'))
  /\ UNCHANGED <<polls, sd>>
  /\ UNCHANGED <<runPc, update, ready, cfg, out, certCAs, caHeap, certCAPool, leaf,
                 upstreams, ups, ca, lf, pt>>

\* One iteration of the loop over srv.Proxy.Upstreams (watcher.go:144-158).
HandleUpstream ==
  /\ Running /\ px.pc = "loop"
  /\ LET up == SrvUpstreams(px.srv)[px.i]
         st == ReconcileOne([m |-> upstreams, o |-> ups], up)
         keep == px.keep \cup {KeyOf(up)}
     IN /\ upstreams' = st.m
        /\ ups' = st.o
        /\ px' = IF px.i < Len(SrvUpstreams(px.srv))
                 THEN [px EXCEPT !.i = @ + 1, !.keep = keep]
                 ELSE [px EXCEPT !.i = 0, !.keep = keep,
                                 !.pc = AfterLoop(st.m, keep, px.first)]
        /\ IF st.m # upstreams THEN hist' \in Marks(KeyStarted(hist, KeyOf(up)))
           ELSE hist' = hist
  /\ UNCHANGED <<polls, sd>>
  /\ UNCHANGED <<runPc, update, ready, cfg, out, certCAs, caHeap, certCAPool, leaf,
                 downstream, ca, lf, pt>>

\* One iteration of the loop over w.upstreams that removes (watcher.go:161-165);
\* the order is the map's.
HandleRemove(name) ==
  /\ Running /\ px.pc = "rm"
  /\ name \in DOMAIN upstreams \ px.keep
  /\ LET st == RemoveUpstream([m |-> upstreams, o |-> ups], name)
     IN /\ upstreams' = st.m
        /\ ups' = st.o
        /\ px' = [px EXCEPT !.pc = AfterLoop(st.m, px.keep, px.first)]
  /\ hist' \in Marks(KeyRemoved(hist, name))
  /\ UNCHANGED <<polls, sd>>
  /\ UNCHANGED <<runPc, update, ready, cfg, out, certCAs, caHeap, certCAPool, leaf,
                 downstream, ca, lf, pt>>

\* if first { w.ready.Done() } (watcher.go:167-169).
HandleReady ==
  /\ Running /\ px.pc = "ready"
  /\ ready' = ReadyDone(ready)
  /\ runPc' = IF ready' < 0 THEN "panic" ELSE runPc
  /\ px' = [px EXCEPT !.pc = "notify"]
  /\ hist' = [hist EXCEPT !.signalled = @ \cup {"proxy"}]
  /\ UNCHANGED <<polls, sd>>
  /\ UNCHANGED <<update, cfg, out, certCAs, caHeap, certCAPool, leaf,
                 downstream, upstreams, ups, ca, lf, pt>>

\* w.notifyChanged(), then first = false (watcher.go:361-364).
WatchProxyNotify ==
  /\ Running /\ px.pc = "notify"
  /\ update' = NotifyChanged(update)
  /\ px' = [ZeroPx EXCEPT !.lastIndex = px.lastIndex, !.first = FALSE]
  /\ hist' = [Noted(hist) EXCEPT !.before = <<>>]
  /\ UNCHANGED <<polls, sd>>
  /\ UNCHANGED <<runPc, ready, cfg, out, certCAs, caHeap, certCAPool, leaf,
                 downstream, upstreams, ups, ca, lf, pt>>

(***************************************************************************)
(* The upstream watcher goroutines (watcher.go:190-217, 254-286).          *)
(***************************************************************************)
\* Mutant: the flag is never seen.
ObservedDoneBug(u) == FALSE

\* if u.done (watcher.go:193, 256).
ObservedDone(u) == u.done

\* if u.done { return } at the top of the loop; u.done is read without
\* w.lock.  A goroutine that returned leaves an object nothing refers to.
UpCheck(id) ==
  /\ Running /\ ups[id].live /\ ups[id].pc = "check"
  /\ ups' = IF ObservedDone(ups[id]) THEN [ups EXCEPT ![id] = FreeUp]
            ELSE [ups EXCEPT ![id].pc = "poll"]
  /\ hist' = IF ObservedDone(ups[id]) THEN [hist EXCEPT !.uploops[id] = NoPolls] ELSE hist
  /\ UNCHANGED <<polls, sd>>
  /\ UNCHANGED <<runPc, update, ready, cfg, out, certCAs, caHeap, certCAPool, leaf,
                 downstream, upstreams, ca, lf, px, pt>>

\* Health().Connect failed: sleep, index = 0, continue (watcher.go:201-206).
UpServiceErr(id) ==
  /\ Running /\ polls > 0 /\ ups[id].live /\ ups[id].pc = "poll" /\ ups[id].kind = "service"
  /\ ups' = [ups EXCEPT ![id].index = ResetIndex(@), ![id].pc = "check"]
  /\ polls' = polls - 1
  /\ UNCHANGED sd
  /\ hist' = UpLoopFailed(hist, id)
  /\ UNCHANGED <<runPc, update, ready, cfg, out, certCAs, caHeap, certCAPool, leaf,
                 downstream, upstreams, ca, lf, px, pt>>

\* Health().Connect returned nodes at index idx (watcher.go:207-215).
UpServiceOk(id, idx, nodes) ==
  /\ Running /\ polls > 0 /\ ups[id].live /\ ups[id].pc = "poll" /\ ups[id].kind = "service"
  /\ IF Changed(ups[id].index, idx)
     THEN /\ ups' = [ups EXCEPT ![id].index = idx, ![id].Nodes = nodes, ![id].pc = "notify"]
          /\ hist' \in Marks(NodesStored(UpLoopOk(hist, id, idx, TRUE), ups[id], nodes))
     ELSE /\ ups' = [ups EXCEPT ![id].index = idx, ![id].pc = "check"]
          /\ hist' = UpLoopOk(hist, id, idx, FALSE)
  /\ polls' = polls - 1
  /\ UNCHANGED sd
  /\ UNCHANGED <<runPc, update, ready, cfg, out, certCAs, caHeap, certCAPool, leaf,
                 downstream, upstreams, ca, lf, px, pt>>

\* PreparedQuery().Execute failed: sleep, continue (watcher.go:265-269).
UpQueryErr(id) ==
  /\ Running /\ polls > 0 /\ ups[id].live /\ ups[id].pc = "poll"
  /\ ups[id].kind = UpstreamDestTypePreparedQuery
  /\ ups' = [ups EXCEPT ![id].pc = "check"]
  /\ polls' = polls - 1
  /\ UNCHANGED sd
  /\ hist' = UpLoopFailed(hist, id)
  /\ UNCHANGED <<runPc, update, ready, cfg, out, certCAs, caHeap, certCAPool, leaf,
                 downstream, upstreams, ca, lf, px, pt>>

\* A comparison that takes a nil slice and an empty one as equal.
DeepEqualNilBug(last, nodesP) ==
  IF last = <<>> THEN nodesP = <<>> ELSE last[1] = nodesP

\* A comparison of the two slices by identity: never equal.
DeepEqualLastBug(last, nodesP) == FALSE

\* reflect.DeepEqual(last, nodesP) (watcher.go:276): nodesP is never nil, a
\* nil last equals no nodesP, and the pointers are compared by what they
\* point to.
DeepEqualLast(last, nodesP) == last # <<>> /\ last[1] = nodesP

\* PreparedQuery().Execute returned nodes (watcher.go:271-284).
UpQueryOk(id, nodes) ==
  /\ Running /\ polls > 0 /\ ups[id].live /\ ups[id].pc = "poll"
  /\ ups[id].kind = UpstreamDestTypePreparedQuery
  /\ IF ~DeepEqualLast(ups[id].last, nodes)
     THEN /\ ups' = [ups EXCEPT ![id].Nodes = nodes, ![id].last = <<nodes>>,
                                ![id].pc = "notify"]
          /\ hist' \in Marks(NodesStored(UpLoopOk(hist, id, nodes, TRUE), ups[id], nodes))
     ELSE /\ ups' = [ups EXCEPT ![id].pc = "check"]
          /\ hist' = UpLoopOk(hist, id, nodes, FALSE)
  /\ polls' = polls - 1
  /\ UNCHANGED sd
  /\ UNCHANGED <<runPc, update, ready, cfg, out, certCAs, caHeap, certCAPool, leaf,
                 downstream, upstreams, ca, lf, px, pt>>

\* w.notifyChanged() (watcher.go:214, 280).
UpNotify(id) ==
  /\ Running /\ ups[id].live /\ ups[id].pc = "notify"
  /\ update' = NotifyChanged(update)
  /\ ups' = [ups EXCEPT ![id].pc = "check"]
  /\ hist' = UpLoopNotified(Noted(hist), id)
  /\ UNCHANGED <<polls, sd>>
  /\ UNCHANGED <<runPc, ready, cfg, out, certCAs, caHeap, certCAPool, leaf,
                 downstream, upstreams, ca, lf, px, pt>>

(***************************************************************************)
(* What the registry may answer.                                           *)
(***************************************************************************)
Instance(node, svcAddr, status, passing, warning) ==
  [Node |-> node, NodeAddress |-> "10.0.0.1", ServiceAddress |-> svcAddr, Port |-> 8080,
   Status |-> status, Passing |-> passing, Warning |-> warning]

Upstream(type, name, port, poll) ==
  [DestinationType |-> type, DestinationName |-> name, LocalBindPort |-> port,
   PollInterval |-> poll]

Registration(port, config, upstreamList) ==
  [Port |-> port, Proxy |-> <<[Config |-> config, Upstreams |-> upstreamList]>>]

UpA == Upstream("service", "a", 9001, "")
UpB == Upstream("service", "b", 9002, "")
UpC == Upstream("service", "c", 9003, "")
UpQ == Upstream(UpstreamDestTypePreparedQuery, "q", 9004, "1s")
UpQBad == Upstream(UpstreamDestTypePreparedQuery, "q", 9004, "bad")

\* The answers of the whole-system specification.
SysRoots == {<<1>>}
SysCerts == {1}
SysPorts == {8080}
SysNodes == {<<Instance(1, "", HealthPassing, 1, 1)>>}
SysRegs ==
  {Registration(21000, [bind_address |-> "10.0.0.9"], <<UpA>>),
   Registration(21000, <<>>, <<>>)}

(***************************************************************************)
(* The whole system.                                                       *)
(***************************************************************************)
InitWith(track, answers) ==
  /\ runPc = "start"
  /\ update = 0
  /\ ready = 0
  /\ cfg = <<>>
  /\ out = <<>>
  /\ certCAs = NilSlice
  /\ caHeap = <<>>
  /\ certCAPool = {}
  /\ leaf = NilLeaf
  /\ downstream = ZeroDownstream
  /\ upstreams = <<>>
  /\ ups = [i \in 1..MaxUps |-> FreeUp]
  /\ ca = ZeroLoop
  /\ lf = ZeroLoop
  /\ px = ZeroPx
  /\ pt = ZeroLoop
  /\ polls = answers
  /\ hist = ZeroHist(track)
  /\ sd = NewShutdown

Init == InitWith("", MaxPolls)

RunNext == RunStartErr \/ RunStart \/ RunWait \/ RunRecv \/ RunGenCfg \/ Consume

CANext(rootsSet) ==
  \/ WatchCAErr
  \/ \E idx \in Indexes, roots \in rootsSet : WatchCAOk(idx, roots)
  \/ WatchCANotify
  \/ WatchCAReady

LeafNext(certSet) ==
  \/ WatchLeafErr
  \/ \E idx \in Indexes, c \in certSet : WatchLeafOk(idx, c)
  \/ WatchLeafNotify
  \/ WatchLeafReady

PortNext(portSet) ==
  \/ WatchPortErr
  \/ \E h \in Indexes, p \in portSet : WatchPortOk(h, p)
  \/ WatchPortReady
  \/ WatchPortNotify

ProxyDownstreamNext(regSet) ==
  \/ WatchProxyErr
  \/ \E h \in Indexes, srv \in regSet : WatchProxyOk(h, srv)
  \/ HandleBindDefault
  \/ HandleBindPort
  \/ HandleTargetDefault
  \/ HandleConfigLine
  \/ HandleReady
  \/ WatchProxyNotify

ProxyUpstreamNext ==
  \/ HandleUpstream
  \/ \E name \in DOMAIN upstreams : HandleRemove(name)

ProxyNext(regSet) == ProxyDownstreamNext(regSet) \/ ProxyUpstreamNext

UpServiceNext(nodesSet) ==
  \E id \in 1..MaxUps :
    \/ UpCheck(id)
    \/ UpServiceErr(id)
    \/ \E idx \in Indexes, nodes \in nodesSet : UpServiceOk(id, idx, nodes)
    \/ UpNotify(id)

UpQueryNext(nodesSet) ==
  \E id \in 1..MaxUps :
    \/ UpQueryErr(id)
    \/ \E nodes \in nodesSet : UpQueryOk(id, nodes)

Next ==
  \/ RunNext
  \/ CANext(SysRoots)
  \/ LeafNext(SysCerts)
  \/ PortNext(SysPorts)
  \/ ProxyNext(SysRegs)
  \/ UpServiceNext(SysNodes)

Spec == Init /\ [][Next]_vars

(***************************************************************************)
(* C1  Readiness gating: no Config is generated for or sent on w.C before  *)
(* each of the four startup watchers (CA roots, leaf, sidecar-proxy        *)
(* registration, own-service port) has called w.ready.Done(), whatever     *)
(* notifications were raised before.                                       *)
(***************************************************************************)
C1_ReadinessGating ==
  (runPc \in {"gen", "send"} \/ cfg # <<>> \/ out # <<>>) => hist.signalled = Watchers4

\* A Config was received although an upstream watcher had stored nodes (and
\* notified) in the run.
C1_Witness ==
  /\ out # <<>>
  /\ \E id \in 1..MaxUps : ups[id].live /\ ups[id].Nodes # <<>>

(***************************************************************************)
(* C2  Coalescing: w.update never holds more than one signal; it holds one *)
(* exactly when notifyChanged was called since Run last received;  each    *)
(* received signal, whatever the number of calls behind it, is followed by *)
(* one genCfg call and one Config; a notifyChanged call made while a       *)
(* signal is pending changes nothing but the caller's position.            *)
(***************************************************************************)
C2_State ==
  /\ update \in {0, 1}
  /\ (update = 1) <=> (hist.notes >= 1)
  /\ runPc = "gen" => hist.gens = 0
  /\ runPc = "send" => hist.gens = 1 /\ hist.batch >= 1
  /\ runPc = "recv" /\ hist.recvd => hist.gens = 1

NotifyStep ==
  \/ ca.pc = "notify" /\ ca'.pc # "notify"
  \/ lf.pc = "notify" /\ lf'.pc # "notify"
  \/ px.pc = "notify" /\ px'.pc # "notify"
  \/ pt.pc = "notify" /\ pt'.pc # "notify"
  \/ \E id \in 1..MaxUps : ups[id].pc = "notify" /\ ups'[id].pc # "notify"

C2_Coalescing ==
  [][/\ C2_State'
     /\ NotifyStep /\ update = 1 =>
          /\ update' = 1
          /\ UNCHANGED <<runPc, ready, cfg, out, certCAs, caHeap, certCAPool, leaf,
                         downstream, upstreams>>]_vars

\* Two or more notifyChanged calls were behind the signal Run received, and
\* one Config was generated for them.
C2_Witness == runPc = "send" /\ hist.batch >= 2 /\ hist.gens = 1

(***************************************************************************)
(* The whole system with one change tracked and with the scheduling the Go *)
(* runtime gives: a goroutine that can take a step takes it, and the       *)
(* consumer keeps receiving.  The registry owes no answer.                 *)
(***************************************************************************)
InitLive == InitWith("mark", MaxPolls)

Fairness ==
  /\ WF_vars(RunWait \/ RunRecv \/ RunGenCfg)
  /\ WF_vars(Consume)
  /\ WF_vars(WatchCANotify \/ WatchCAReady)
  /\ WF_vars(WatchLeafNotify \/ WatchLeafReady)
  /\ WF_vars(WatchPortReady \/ WatchPortNotify)
  /\ WF_vars(HandleBindDefault \/ HandleBindPort \/ HandleTargetDefault \/ HandleConfigLine
               \/ HandleUpstream \/ (\E name \in DOMAIN upstreams : HandleRemove(name))
               \/ HandleReady \/ WatchProxyNotify)
  /\ \A id \in 1..MaxUps : WF_vars(UpCheck(id) \/ UpNotify(id))

SpecLive == InitLive /\ [][Next]_vars /\ Fairness

(***************************************************************************)
(* C3  No lost update: a change a watcher applies to the shared state      *)
(* after the readiness barrier is passed is eventually followed by a       *)
(* Config, generated after the change, that the consumer receives.         *)
(***************************************************************************)
C3_NoLostUpdate == (hist.mark = "pending") ~> (hist.mark = "emitted")

(***************************************************************************)
(* Reconciliation alone: the registration watcher with handleProxyChange   *)
(* and the upstream watchers it starts and stops.                          *)
(***************************************************************************)
ReconRegs ==
  {Registration(21000, <<>>, <<UpA, UpB>>),
   Registration(21000, [bind_address |-> "10.0.0.9"], <<UpB, UpC>>),
   Registration(21000, <<>>, <<UpA, UpQBad>>),
   Registration(21000, <<>>, <<UpQBad, UpQ>>),
   [Port |-> 21000, Proxy |-> <<>>]}

ReconNodes == {<<Instance(1, "", HealthPassing, 1, 1)>>}

NextRecon ==
  \/ RunStart
  \/ ProxyNext(ReconRegs)
  \/ UpServiceNext(ReconNodes)
  \/ UpQueryNext(ReconNodes)

InitRecon == InitWith("", MaxReconPolls)

SpecRecon == InitRecon /\ [][NextRecon]_vars

\* handleProxyChange has run its two loops for the registration px.srv.
HandlerFinished == px.pc \in {"ready", "notify"}

\* The keys the registration lists.
Desired == {KeyOf(SrvUpstreams(px.srv)[j]) : j \in DOMAIN SrvUpstreams(px.srv)}

\* The listed keys some listing of which can be started: a direct service,
\* or a prepared query whose poll_interval is missing or parses.
Startable ==
  {KeyOf(SrvUpstreams(px.srv)[j]) :
     j \in {i \in DOMAIN SrvUpstreams(px.srv) :
              \/ SrvUpstreams(px.srv)[i].DestinationType # UpstreamDestTypePreparedQuery
              \/ SrvUpstreams(px.srv)[i].PollInterval \in {"", "1s"}}}

(***************************************************************************)
(* C4 as stated: after handleProxyChange the tracked keys are exactly the  *)
(* keys the registration lists.                                            *)
(***************************************************************************)
C4_AsStated == HandlerFinished => DOMAIN upstreams = Desired

(***************************************************************************)
(* C4 amended: after handleProxyChange the tracked keys are the listed     *)
(* keys that were tracked before or can be started (a prepared query with  *)
(* an unparsable poll_interval is not); a key no longer listed is marked   *)
(* done and gone from the map; a listed key tracked before keeps its       *)
(* object and watcher; a key that is new has a new object with a watcher.  *)
(***************************************************************************)
C4_Reconciliation ==
  HandlerFinished =>
    /\ DOMAIN upstreams = (Desired \cap DOMAIN hist.before) \cup Startable
    /\ \A k \in DOMAIN hist.before \ Desired :
         ups[hist.before[k]].done \/ ~ups[hist.before[k]].live
    /\ \A k \in DOMAIN hist.before \cap Desired :
         /\ upstreams[k] = hist.before[k]
         /\ ups[upstreams[k]].live /\ ~ups[upstreams[k]].done
    /\ \A k \in DOMAIN upstreams \ DOMAIN hist.before :
         /\ upstreams[k] \notin {hist.before[b] : b \in DOMAIN hist.before}
         /\ ups[upstreams[k]].live /\ ~ups[upstreams[k]].done
         /\ ups[upstreams[k]].Name = k
         /\ ups[upstreams[k]].pc \in {"check", "poll", "notify"}

\* {A, B} was tracked, the registration lists {B, C}, and the handler is
\* through.
C4_Witness ==
  /\ HandlerFinished
  /\ DOMAIN hist.before = {KeyOf(UpA), KeyOf(UpB)}
  /\ Desired = {KeyOf(UpB), KeyOf(UpC)}
  /\ DOMAIN upstreams = {KeyOf(UpB), KeyOf(UpC)}

(***************************************************************************)
(* genCfg as a function of the raw node lists: the watcher is past the     *)
(* barrier with two upstreams tracked, whose watchers stored the same      *)
(* instances in two arrival orders, and Run has received a signal.  The    *)
(* registry gives no further answer.                                       *)
(***************************************************************************)
GenInstances ==
  {Instance(1, "", HealthPassing, 1, 1),
   Instance(1, "10.1.0.1", HealthPassing, 2, 1),
   Instance(2, "", HealthWarning, 1, 3),
   Instance(2, "", HealthWarning, 1, 0),
   Instance(3, "", HealthPassing, 0, 1),
   Instance(3, "10.1.0.3", "critical", 1, 1),
   Instance(1, "", "maintenance", 1, 1),
   Instance(2, "10.1.0.2", HealthPassing, 1, 1)}

\* The arrival orders of the instances of the list r.
ArrivalOrders(r) ==
  {[i \in DOMAIN r |-> r[f[i]]] :
     f \in {g \in [DOMAIN r -> DOMAIN r] : \A i, j \in DOMAIN r : i # j => g[i] # g[j]}}

PastBarrier == [pc |-> "poll", lastIndex |-> 1, first |-> FALSE]

InitGen ==
  /\ runPc = "gen"
  /\ update = 0
  /\ ready = 0
  /\ cfg = <<>>
  /\ out = <<>>
  /\ certCAs = [arr |-> 1, len |-> 1]
  /\ caHeap = << <<1>> >>
  /\ certCAPool = {1}
  /\ leaf = [nil |-> FALSE, Cert |-> 1, Key |-> 1]
  /\ downstream = [ZeroDownstream EXCEPT !.LocalBindAddress = defaultDownstreamBindAddr,
                                         !.LocalBindPort = 21000,
                                         !.TargetAddress = defaultUpstreamBindAddr,
                                         !.TargetPort = 8080]
  /\ upstreams = [k \in {KeyOf(UpA), KeyOf(UpB)} |-> IF k = KeyOf(UpA) THEN 1 ELSE 2]
  /\ \E r \in SeqsUpTo(GenInstances, MaxLen) : \E q \in ArrivalOrders(r) :
       ups = [i \in 1..MaxUps |->
                IF i = 1 THEN [NewUp(UpA, KeyOf(UpA), "service") EXCEPT
                                 !.Nodes = r, !.index = 1, !.pc = "poll"]
                ELSE IF i = 2 THEN [NewUp(UpB, KeyOf(UpB), "service") EXCEPT
                                      !.Nodes = q, !.index = 1, !.pc = "poll"]
                ELSE FreeUp]
  /\ ca = PastBarrier
  /\ lf = PastBarrier
  /\ px = [ZeroPx EXCEPT !.lastIndex = 1, !.first = FALSE]
  /\ pt = PastBarrier
  /\ polls = 0
  /\ hist = [ZeroHist("") EXCEPT !.signalled = Watchers4, !.batch = 1, !.recvd = TRUE]
  /\ sd = NewShutdown

NextGen == RunGenCfg \/ Consume

SpecGen == InitGen /\ [][NextGen]_vars

\* The raw list of the tracked upstream k and the node list of k in the
\* Config Run is sending.
RawOf(k) == ups[upstreams[k]].Nodes
SentNodes(k) == cfg[1].Upstreams[k].Nodes

\* The number of indexes of the list l whose element satisfies P.
Count(l, P(_)) == Cardinality({i \in DOMAIN l : P(l[i])})

(***************************************************************************)
(* C5  Weight exclusion: genCfg emits a node for a raw instance if and     *)
(* only if the instance is passing with a non-zero passing weight or       *)
(* warning with a non-zero warning weight; the emitted weight is that      *)
(* weight, so no emitted node has weight 0 and no instance of another      *)
(* status is emitted.                                                      *)
(***************************************************************************)
C5_WeightExclusion ==
  runPc = "send" =>
    \A k \in DOMAIN upstreams :
      /\ \A i \in DOMAIN SentNodes(k) : SentNodes(k)[i].Weight # 0
      /\ \A n \in 1..3, w \in 0..3 :
           LET Sent(x) == x.Name = n /\ x.Weight = w
               Due(s) == /\ s.Node = n
                         /\ \/ s.Status = "passing" /\ s.Passing = w /\ w # 0
                            \/ s.Status = "warning" /\ s.Warning = w /\ w # 0
           IN Count(SentNodes(k), Sent) = Count(RawOf(k), Due)
      /\ \A i \in DOMAIN SentNodes(k) :
           SentNodes(k)[i].Name \in 1..3 /\ SentNodes(k)[i].Weight \in 0..3

\* A Config built from a raw list with an emitted instance, a passing
\* instance of weight 0 and a critical instance.
C5_Witness ==
  /\ runPc = "send"
  /\ RawOf(KeyOf(UpA)) = <<Instance(3, "", HealthPassing, 0, 1),
                           Instance(3, "10.1.0.3", "critical", 1, 1),
                           Instance(2, "", HealthWarning, 1, 3)>>
  /\ Len(SentNodes(KeyOf(UpA))) = 1

(***************************************************************************)
(* C6  Determinism: the node list genCfg emits is sorted by node name      *)
(* ascending and is the same list for every arrival order of the raw       *)
(* instances, also when instances share a node name.                       *)
(***************************************************************************)
C6_Determinism ==
  runPc = "send" =>
    /\ \A k \in DOMAIN upstreams : \A i, j \in DOMAIN SentNodes(k) :
         i < j => SentNodes(k)[i].Name <= SentNodes(k)[j].Name
    /\ SentNodes(KeyOf(UpA)) = SentNodes(KeyOf(UpB))

(***************************************************************************)
(* The watch loops alone: every loop polls, fails and polls again, and the *)
(* history keeps how each success after a failure was treated.  The leaf   *)
(* loop has the shape of the CA loop and the port loop runs the code of    *)
(* the proxy loop (watchService); one loop of each shape is followed.      *)
(***************************************************************************)
ResyncRegs ==
  {Registration(21000, [bind_address |-> "10.0.0.9"], <<UpA, UpQ>>),
   Registration(21000, <<>>, <<>>)}

QueryNodes ==
  {<<>>,
   <<Instance(1, "", HealthPassing, 1, 1)>>,
   <<Instance(1, "", HealthPassing, 1, 1), Instance(2, "", HealthPassing, 1, 1)>>}

\* The lists [n1] and [n1, n2].
QueryNodes2 ==
  << <<Instance(1, "", HealthPassing, 1, 1)>>,
     <<Instance(1, "", HealthPassing, 1, 1), Instance(2, "", HealthPassing, 1, 1)>> >>

NextResync ==
  \/ RunStart
  \/ CANext(SysRoots)
  \/ ProxyNext(ResyncRegs)
  \/ UpServiceNext(SysNodes)
  \/ UpQueryNext(QueryNodes)

InitResync == InitWith("resync", MaxResyncPolls)

SpecResync == InitResync /\ [][NextResync]_vars

\* C7: in the CA, leaf, proxy, port and direct-service watch loops the first
\* successful poll after a failed one is always treated as changed: no such
\* poll is passed over.
C7_ResyncOnError ==
  /\ \A w \in Watchers4 : hist.loops[w].st # "missed"
  /\ \A i \in 1..MaxUps :
       ups[i].live /\ ups[i].kind = "service" => hist.uploops[i].st # "missed"

\* C8 as stated: in the prepared-query loop the first successful poll after
\* a failed one is always treated as changed.
C8_AsStated ==
  \A i \in 1..MaxUps :
    ups[i].live /\ ups[i].kind = UpstreamDestTypePreparedQuery
      => hist.uploops[i].st # "missed"

\* C8: in the prepared-query loop the first successful poll after a failed
\* one is passed over exactly when its node list equals the list of the
\* last success before the failure, and then the upstream keeps that list;
\* it is treated as changed exactly when there was no success before or the
\* list differs, and then the upstream holds the new list.
C8_ResyncKeepsLast ==
  \A i \in 1..MaxUps :
    ups[i].live /\ ups[i].kind = UpstreamDestTypePreparedQuery =>
      LET l == hist.uploops[i]
      IN /\ l.st = "missed" => l.prev # <<>> /\ l.prev = l.got /\ ups[i].Nodes = l.prev[1]
         /\ l.st = "resynced" => (l.prev = <<>> \/ l.prev # l.got) /\ ups[i].Nodes = l.got[1]

\* A prepared-query poll that followed a failure and returned the list seen
\* before it was passed over.
C8_Witness ==
  \E i \in 1..MaxUps :
    /\ ups[i].live /\ ups[i].kind = UpstreamDestTypePreparedQuery
    /\ hist.uploops[i].st = "missed"
    /\ hist.uploops[i].got = <<ups[i].Nodes>>

(***************************************************************************)
(* The watcher and its consumer: a registration without upstreams that     *)
(* sets bind_address, CA roots that change, and the Configs generated and  *)
(* received meanwhile.                                                     *)
(***************************************************************************)
SnapRoots == {<<1>>, <<2>>}

SnapRegs == {Registration(21000, [bind_address |-> "10.0.0.9"], <<>>)}

NextSnap ==
  \/ RunNext
  \/ CANext(SnapRoots)
  \/ LeafNext(SysCerts)
  \/ PortNext(SysPorts)
  \/ ProxyDownstreamNext(SnapRegs)

InitSnap == InitWith("snap", MaxSnapPolls)

SpecSnap == InitSnap /\ [][NextSnap]_vars

\* C9: the CA list of the Config the consumer received last still reads as
\* it did when the Config was received, whatever the watchers did since.
C9_SnapshotImmutable ==
  out # <<>> => SliceVal(out[1].CAs, caHeap) = out[1].cas

\* C10: the downstream fields of a generated Config that come from the
\* registration are those w.downstream held when New returned or when some
\* run of handleProxyChange had written its last downstream field.
C10_SelfConsistent ==
  cfg # <<>> /\ hist.applied # <<>> => ProxyPart(cfg[1].Downstream) \in hist.applied[1]

(***************************************************************************)
(* C11  Prepared-query change detection: a successful poll whose node list *)
(* differs from the list of the successful poll before replaces the        *)
(* upstream's node list and is followed by exactly one notifyChanged call; *)
(* one whose list is equal leaves the node list as it is and is followed   *)
(* by none; after the polls [n1] and [n1, n2] the upstream that genCfg     *)
(* builds has the nodes n1, n2 in this order.                              *)
(***************************************************************************)
QueryLoops == {i \in 1..MaxUps : ups[i].live /\ ups[i].kind = UpstreamDestTypePreparedQuery}

C11_QueryChangeDetection ==
  \A i \in QueryLoops :
    LET l == hist.uploops[i]
    IN l.got # <<>> =>
         /\ l.changed = (l.prev # l.got)
         /\ ups[i].Nodes = l.got[1]
         /\ l.calls = IF l.changed /\ ups[i].pc # "notify" THEN 1 ELSE 0
         /\ l.prev = <<QueryNodes2[1]>> /\ l.got = <<QueryNodes2[2]>>
              => /\ l.changed
                 /\ LET nodes == GenUpstream(ups[i], certCAs, leaf).Nodes
                    IN Len(nodes) = 2 /\ nodes[1].Name = 1 /\ nodes[2].Name = 2

\* The polls [n1] and [n1, n2] were answered in this order and the one
\* notifyChanged call of the second is made.
C11_Witness ==
  \E i \in QueryLoops :
    /\ hist.uploops[i].prev = <<QueryNodes2[1]>>
    /\ hist.uploops[i].got = <<QueryNodes2[2]>>
    /\ hist.uploops[i].calls = 1

(***************************************************************************)
(* C12  End-to-end liveness: if the four startup watchers come to signal   *)
(* the barrier and the watcher of the listed direct-service upstream a     *)
(* comes to store an instance that is passing with a non-zero passing      *)
(* weight, then Run eventually sends a Config whose upstream a has that    *)
(* instance as a node.                                                     *)
(***************************************************************************)
UpstreamPopulated ==
  /\ hist.signalled = Watchers4
  /\ KeyOf(UpA) \in DOMAIN upstreams
  /\ \E i \in DOMAIN RawOf(KeyOf(UpA)) :
       RawOf(KeyOf(UpA))[i].Node = 1 /\ NodeEmitted(RawOf(KeyOf(UpA))[i])

UpstreamSent ==
  /\ runPc = "send"
  /\ KeyOf(UpA) \in DOMAIN cfg[1].Upstreams
  /\ \E i \in DOMAIN SentNodes(KeyOf(UpA)) : SentNodes(KeyOf(UpA))[i].Name = 1

C12_EndToEnd == (<>UpstreamPopulated) => (<>UpstreamSent)

(***************************************************************************)
(* C13  One-shot readiness: the barrier counter is 4 less the number of    *)
(* startup watchers that have signalled and never below zero, and a        *)
(* startup watcher that has processed its first successful poll (its first *)
(* flag is down) has signalled.                                            *)
(***************************************************************************)
C13_OneShotReadiness ==
  Running =>
    /\ ready >= 0
    /\ ready = ReadyAdd - Cardinality(hist.signalled)
    /\ ~ca.first => "ca" \in hist.signalled
    /\ ~lf.first => "leaf" \in hist.signalled
    /\ ~px.first => "proxy" \in hist.signalled
    /\ ~pt.first => "port" \in hist.signalled

(***************************************************************************)
(* C14  Lock discipline: every step that writes the shared watcher state   *)
(* (CA list and pool, leaf, downstream fields, upstream map, node lists    *)
(* and done flags) is a step whose accesses lie between w.lock.Lock() and  *)
(* w.lock.Unlock().                                                        *)
(***************************************************************************)
SharedState ==
  <<certCAs, caHeap, certCAPool, leaf, downstream, upstreams,
    [i \in 1..MaxUps |-> <<ups[i].Nodes, ups[i].done>>]>>

\* The steps whose writes the code makes with w.lock held: the handlers of
\* watchCA (watcher.go:390-400) and watchLeaf (320-326), the upstream loop
\* of handleProxyChange (147-149, 186-188, 250-252), removeUpstream
\* (292-295) and the stores of the upstream watchers (211-213, 277-279).
LockedStep ==
  \/ ca.pc = "poll" /\ ca' # ca
  \/ lf.pc = "poll" /\ lf' # lf
  \/ px.pc \in {"loop", "rm"} /\ px' # px
  \/ \E i \in 1..MaxUps : ups[i].live /\ ups[i].pc = "poll" /\ ups'[i] # ups[i]

C14_LockDiscipline == [][SharedState' # SharedState => LockedStep]_vars

(***************************************************************************)
(* The watcher past the barrier with the direct-service upstream a         *)
(* tracked: registrations that drop and list a, the answers to a's         *)
(* watchers, and the Configs generated meanwhile.                          *)
(***************************************************************************)
RemovalRegs ==
  {Registration(21000, <<>>, <<UpA>>),
   Registration(21000, <<>>, <<>>)}

RemovalNodes ==
  {<<Instance(1, "", HealthPassing, 1, 1)>>,
   <<Instance(2, "", HealthPassing, 1, 1)>>}

InitRemoval ==
  /\ runPc = "wait"
  /\ update = 1
  /\ ready = 0
  /\ cfg = <<>>
  /\ out = <<>>
  /\ certCAs = [arr |-> 1, len |-> 1]
  /\ caHeap = << <<1>> >>
  /\ certCAPool = {1}
  /\ leaf = [nil |-> FALSE, Cert |-> 1, Key |-> 1]
  /\ downstream = [ZeroDownstream EXCEPT !.LocalBindAddress = defaultDownstreamBindAddr,
                                         !.LocalBindPort = 21000,
                                         !.TargetAddress = defaultUpstreamBindAddr,
                                         !.TargetPort = 8080]
  /\ upstreams = [k \in {KeyOf(UpA)} |-> 1]
  /\ ups = [i \in 1..MaxUps |->
              IF i = 1 THEN NewUp(UpA, KeyOf(UpA), "service") ELSE FreeUp]
  /\ ca = PastBarrier
  /\ lf = PastBarrier
  /\ px = [ZeroPx EXCEPT !.lastIndex = 1, !.first = FALSE]
  /\ pt = PastBarrier
  /\ polls = MaxRemovalPolls
  /\ hist = [KeyStarted(ZeroHist("removal"), KeyOf(UpA)) EXCEPT
               !.signalled = Watchers4, !.notes = MaxNotes]
  /\ sd = NewShutdown

NextRemoval ==
  \/ RunWait \/ RunRecv \/ RunGenCfg \/ Consume
  \/ WatchProxyErr
  \/ \E h \in Indexes, srv \in RemovalRegs : WatchProxyOk(h, srv)
  \/ HandleBindDefault \/ HandleBindPort \/ HandleTargetDefault
  \/ ProxyUpstreamNext
  \/ WatchProxyNotify
  \/ UpServiceNext(RemovalNodes)

SpecRemoval == InitRemoval /\ [][NextRemoval]_vars

(***************************************************************************)
(* C15  No resurrection: the Config Run is sending has an upstream only    *)
(* for keys that were tracked when it was generated, none for a key        *)
(* removed before, and the nodes of each are built from the list that the  *)
(* watcher started for the key when it was last added had stored last,     *)
(* never from what a watcher told to stop stored.                          *)
(***************************************************************************)
C15_NoResurrection ==
  cfg # <<>> /\ hist.atgen # <<>> =>
    /\ DOMAIN cfg[1].Upstreams = DOMAIN hist.atgen[1]
    /\ \A k \in DOMAIN cfg[1].Upstreams :
         cfg[1].Upstreams[k].Nodes = GenNodes(hist.atgen[1][k])

\* A Config with the key a is being sent while the watcher of a removed
\* upstream a still runs and has stored, after a was added again, nodes
\* that the Config does not show.
C15_Witness ==
  /\ runPc = "send"
  /\ KeyOf(UpA) \in DOMAIN cfg[1].Upstreams
  /\ KeyOf(UpA) \in DOMAIN upstreams
  /\ \E i \in 1..MaxUps :
       /\ ups[i].live /\ ups[i].done /\ ups[i].Name = KeyOf(UpA)
       /\ ups[i].Nodes # <<>>
       /\ GenNodes(ups[i].Nodes) # cfg[1].Upstreams[KeyOf(UpA)].Nodes
       /\ upstreams[KeyOf(UpA)] # i

(***************************************************************************)
(* Removal with the upstream watchers scheduled:        a watcher that can *)
(* take a step takes one, and a registry call returns while the registry   *)
(* still answers.                                                          *)
(***************************************************************************)
FairnessRecon ==
  \A id \in 1..MaxUps :
    /\ WF_vars(UpCheck(id) \/ UpNotify(id))
    /\ WF_vars(UpServiceErr(id) \/ UpQueryErr(id)
                 \/ (\E idx \in Indexes, nodes \in ReconNodes : UpServiceOk(id, idx, nodes))
                 \/ (\E nodes \in ReconNodes : UpQueryOk(id, nodes)))

\* The registrations list a direct-service and a prepared-query upstream
\* or none.
NextTerm ==
  \/ RunStart
  \/ ProxyNext(ResyncRegs)
  \/ UpServiceNext(ReconNodes)
  \/ UpQueryNext(ReconNodes)

SpecTerm == InitRecon /\ [][NextTerm]_vars /\ FairnessRecon

(***************************************************************************)
(* C16  Cooperative termination: a direct-service or prepared-query        *)
(* watcher whose upstream is marked done eventually exits, unless it waits *)
(* in a registry call that never returns; and a watcher that is at the top *)
(* of its loop with done set exits there, without another query.           *)
(***************************************************************************)
C16_CooperativeTermination ==
  /\ \A i \in 1..MaxUps :
       [](ups[i].live /\ ups[i].done
            => <>(~ups[i].live \/ ~ups[i].done \/ (ups[i].pc = "poll" /\ polls = 0)))
  /\ [][\A i \in 1..MaxUps :
          ups[i].live /\ ups[i].done /\ ups[i].pc = "check" /\ ups'[i] # ups[i]
            => ~ups'[i].live]_vars

\* A direct-service watcher and a prepared-query watcher are both at the
\* top of their loops with done set.
C16_Witness ==
  \E i, j \in 1..MaxUps :
    /\ ups[i].live /\ ups[i].done /\ ups[i].kind = "service" /\ ups[i].pc = "check"
    /\ ups[j].live /\ ups[j].done /\ ups[j].kind = UpstreamDestTypePreparedQuery
    /\ ups[j].pc = "check"

(***************************************************************************)
(* The listings of the registration being handled that are prepared        *)
(* queries with a poll_interval that does not parse, and the others.       *)
(***************************************************************************)
Malformed ==
  {j \in DOMAIN SrvUpstreams(px.srv) :
     /\ SrvUpstreams(px.srv)[j].DestinationType = UpstreamDestTypePreparedQuery
     /\ SrvUpstreams(px.srv)[j].PollInterval \notin {"", "1s"}}

WellFormed == DOMAIN SrvUpstreams(px.srv) \ Malformed

\* C17 as stated: after handleProxyChange the key of a listed prepared
\* query with an unparsable poll_interval is not in the upstream map.
C17_AsStated ==
  HandlerFinished =>
    \A j \in Malformed : KeyOf(SrvUpstreams(px.srv)[j]) \notin DOMAIN upstreams

(***************************************************************************)
(* C17  Malformed poll interval: after handleProxyChange the key of a      *)
(* listed prepared query with an unparsable poll_interval is in the        *)
(* upstream map only if it was tracked before or another listing of the    *)
(* same registration starts it; every other listed upstream is tracked     *)
(* with a watcher not told to stop; the handler reaches its end, signals   *)
(* the barrier when it is the first, and Run has not failed.               *)
(***************************************************************************)
C17_MalformedPollInterval ==
  /\ px.pc = "loop" \/ HandlerFinished => runPc = "wait"
  /\ HandlerFinished =>
       /\ \A j \in Malformed :
            LET k == KeyOf(SrvUpstreams(px.srv)[j])
            IN k \in DOMAIN upstreams =>
                 \/ k \in DOMAIN hist.before
                 \/ \E i \in WellFormed : KeyOf(SrvUpstreams(px.srv)[i]) = k
       /\ \A j \in WellFormed :
            LET k == KeyOf(SrvUpstreams(px.srv)[j])
            IN /\ k \in DOMAIN upstreams
               /\ ups[upstreams[k]].live /\ ~ups[upstreams[k]].done
       /\ px.pc = "notify" /\ px.first => "proxy" \in hist.signalled

\* The first registration lists the service a and the prepared query q
\* with an unparsable poll_interval; the handler is through, a has a
\* watcher, q has none and the barrier is signalled.
C17_Witness ==
  /\ px.pc = "notify" /\ px.first
  /\ SrvUpstreams(px.srv) = <<UpA, UpQBad>>
  /\ DOMAIN upstreams = {KeyOf(UpA)}
  /\ "proxy" \in hist.signalled
  /\ runPc = "wait"

(***************************************************************************)
(* The proxy watcher alone, with registrations that set all, one or none   *)
(* of the config keys and one without a proxy block.                       *)
(***************************************************************************)
DownRegs ==
  {Registration(21000, [protocol |-> "http", bind_address |-> "10.0.0.9",
                        local_service_address |-> "10.0.0.1",
                        enable_forwardfor |-> TRUE, appname_header |-> "X-App"], <<>>),
   Registration(21001, [protocol |-> "tcp"], <<>>),
   Registration(21000, <<>>, <<>>),
   [Port |-> 21002, Proxy |-> <<>>]}

NextDown == RunStart \/ ProxyDownstreamNext(DownRegs)

InitDown == InitWith("down", MaxDownPolls)

SpecDown == InitDown /\ [][NextDown]_vars

\* The value of the config key of the registration being handled, or
\* other when the key is missing.
ConfigOr(key, other) ==
  IF key \in DOMAIN SrvConfig(px.srv) THEN SrvConfig(px.srv)[key] ELSE other

(***************************************************************************)
(* C18  Downstream defaults: after handleProxyChange the bind address is   *)
(* the registration's bind_address or else 0.0.0.0, the target address its *)
(* local_service_address or else 127.0.0.1, the bind port its port; the    *)
(* protocol, enable_forwardfor and appname_header are the registration's   *)
(* or else what they were when the handler was called.                     *)
(***************************************************************************)
C18_DownstreamDefaults ==
  HandlerFinished /\ hist.prior # <<>> =>
    /\ downstream.LocalBindAddress = ConfigOr("bind_address", "0.0.0.0")
    /\ downstream.TargetAddress = ConfigOr("local_service_address", "127.0.0.1")
    /\ downstream.LocalBindPort = px.srv.Port
    /\ downstream.Protocol = ConfigOr("protocol", hist.prior[1].Protocol)
    /\ downstream.EnableForwardFor = ConfigOr("enable_forwardfor", hist.prior[1].EnableForwardFor)
    /\ downstream.AppNameHeaderName = ConfigOr("appname_header", hist.prior[1].AppNameHeaderName)

\* A registration without a proxy block was handled after one that set
\* every key: the addresses are the defaults again and the other three
\* fields are kept.
C18_Witness ==
  /\ HandlerFinished /\ hist.prior # <<>>
  /\ px.srv.Proxy = <<>>
  /\ hist.prior[1].LocalBindAddress = "10.0.0.9"
  /\ hist.prior[1].TargetAddress = "10.0.0.1"
  /\ downstream.LocalBindAddress = "0.0.0.0"
  /\ downstream.TargetAddress = "127.0.0.1"
  /\ downstream.Protocol = "http" /\ downstream.EnableForwardFor
  /\ downstream.AppNameHeaderName = "X-App"

(***************************************************************************)
(* C19  Leaf identity is populated before synthesis: whenever Run is about *)
(* to call genCfg the leaf is set, with the certificate and the key of one *)
(* leaf answer, and genCfg never panics on a nil leaf.                     *)
(***************************************************************************)
C19_LeafPopulated ==
  /\ runPc = "gen" => ~leaf.nil
  /\ runPc # "panic"
  /\ ~leaf.nil => leaf.Cert = leaf.Key

(***************************************************************************)
(* Shutdown.Shutdown (shutdown.go:42-48) called by the signal goroutine    *)
(* (shutdown.go:26-37) and by other goroutines.                            *)
(***************************************************************************)
watcherVars ==
  <<runPc, update, ready, cfg, out, certCAs, caHeap, certCAPool, leaf,
    downstream, upstreams, ups, ca, lf, px, pt, polls, hist>>

\* Mutant: the flag swapped out is not looked at.
AlreadyStoppedBug(old) == FALSE

\* atomic.SwapUint32(&h.stopped, 1) > 0 (shutdown.go:43).
AlreadyStopped(old) == old > 0

\* Where a caller is after Shutdown returns: the signal goroutine goes on
\* at shutdown.go:33.
AfterShutdown(c) == IF c = "sig" THEN "ret" ELSE "idle"

SdActive == ~sd.exited /\ sd.closes < 2

\* The swap and the test of its result (shutdown.go:43-45).
ShutdownSwap(c) ==
  /\ SdActive /\ sd.pc[c] = "idle" /\ sd.calls[c] < MaxCalls
  /\ sd' = [sd EXCEPT !.stopped = 1,
                      !.calls[c] = @ + 1,
                      !.first = IF sd.stopped = 0 THEN <<c>> ELSE @,
                      !.pc[c] = IF AlreadyStopped(sd.stopped) THEN AfterShutdown(c)
                                ELSE "close"]
  /\ UNCHANGED watcherVars

\* close(h.Stop) (shutdown.go:47); closing a closed channel panics.
ShutdownClose(c) ==
  /\ SdActive /\ sd.pc[c] = "close"
  /\ sd' = [sd EXCEPT !.closes = @ + 1, !.pc[c] = AfterShutdown(c)]
  /\ UNCHANGED watcherVars

\* if i > 0 { os.Exit(1) }; i++ (shutdown.go:33-36).
SignalRet ==
  /\ SdActive /\ sd.pc["sig"] = "ret"
  /\ sd' = IF sd.i > 0 THEN [sd EXCEPT !.exited = TRUE]
           ELSE [sd EXCEPT !.i = @ + 1, !.pc["sig"] = "idle"]
  /\ UNCHANGED watcherVars

NextShutdown ==
  \/ \E c \in Callers : ShutdownSwap(c) \/ ShutdownClose(c)
  \/ SignalRet

SpecShutdown == InitWith("", 0) /\ [][NextShutdown]_vars

(***************************************************************************)
(* C20  Shutdown is idempotent: Stop is never closed twice; once the flag  *)
(* is set, exactly one caller, the first to swap it, has closed Stop or is *)
(* about to; a call of any other caller returns without effect.            *)
(***************************************************************************)
C20_ShutdownOnce ==
  /\ sd.closes <= 1
  /\ sd.closes + Cardinality({c \in Callers : sd.pc[c] = "close"}) = sd.stopped
  /\ \A c \in Callers : sd.pc[c] = "close" => sd.first = <<c>>
  /\ sd.stopped = 0 <=> sd.first = <<>>

\* Every caller has called Shutdown twice, the signal goroutine among
\* them, and Stop is closed once.
C20_Witness ==
  /\ \A c \in Callers : sd.calls[c] = MaxCalls
  /\ sd.closes = 1
  /\ sd.first = <<"a">>
  /\ sd.exited

====
